---- MODULE Spec2Model ----
(***************************************************************************)
(* Model of the io module of markable_reader: the Buffer byte store, the   *)
(* MarkableReader and the BufferedMarkableReader, driven by a caller that  *)
(* issues read(), mark() and reset() calls over an inner byte source.      *)
(***************************************************************************)
EXTENDS Integers, Sequences, FiniteSets, TLC

\* ------------------------------------------------------------------ bounds
\* longest inner byte sequence
MaxLen == 3
\* largest caller buffer handed to read()
MaxRead == 2
\* number of calls the caller makes on one reader
MaxOps == 4
\* largest explicit buffer capacity handed to a constructor
MaxCap == 1
\* longest inner byte sequence and number of calls of the long runs
MaxLongLen == 4
MaxLongOps == 5
\* longest inner byte sequence of the mark/read/reset/read cycle
MaxCycleLen == 5
\* number of calls made on a stand-alone Buffer
MaxBufOps == 4
\* largest slice written to a stand-alone Buffer
MaxWrite == 2

\* ------------------------------------------------------- program constants
DEFAULT_BUFFER_SIZE == 8192
DEFAULT_MARKER_BUFFER_SIZE == 2048
\* smallest non-zero capacity a Vec<u8> grows to
MIN_NON_ZERO_CAP == 8
\* Option::None of buffer_limit
NoLimit == -1

VARIABLES
    kind,       \* "simple": MarkableReader, "buffered": BufferedMarkableReader,
                \* "cycle": MarkableReader under the mark/read/reset/read cycle,
                \* "buffer": a stand-alone Buffer
    src,        \* the inner source's byte sequence
    eofErr,     \* TRUE: the exhausted inner source answers Err(UnexpectedEof), FALSE: Ok(0)
    rd0,        \* the reader as constructed
    rd,         \* the reader's fields, with the inner source's position
                \* (ipos) and the reads made of it (inner_calls)
    bf,         \* the stand-alone Buffer
    panicked,   \* the last call panicked (index out of bounds); the object is gone
    hist,       \* the calls made so far with their results
    budget      \* the number of calls the caller makes

vars == <<kind, src, eofErr, rd0, rd, bf, panicked, hist, budget>>

Min(a, b) == IF a < b THEN a ELSE b
Max(a, b) == IF a < b THEN b ELSE a

\* vec![0; n]
Zeros(n) == [i \in 1..n |-> 0]

\* &s[from..to] with 0-based, half-open bounds
Slice(s, from, to) == SubSeq(s, from + 1, to)

\* ================================================================== Buffer

Buffer_new(buffer_size, buffer_limit) ==
    [pos |-> 0, size |-> 0, buffer_limit |-> buffer_limit,
     cap |-> buffer_size, buffer |-> <<>>]

\* Buffer::len
Buffer_len(b) == Len(b.buffer) - b.pos

\* clear that reports the stored length, read bytes included
Buffer_clear_reports_stored(b) ==
    [b |-> [b EXCEPT !.pos = 0, !.buffer = <<>>],
     ret |-> Len(b.buffer)]

\* Buffer::clear: <<buffer afterwards, dropped>>
Buffer_clear(b) ==
    [b |-> [b EXCEPT !.pos = 0, !.buffer = <<>>],
     ret |-> Len(b.buffer) - b.pos]

\* Buffer::read_into. The loop indexes self.buffer[i + self.pos] for every
\* i < bytes_to_read; an index at or past self.buffer.len() panics.
Buffer_read_into(b, buf, offset) ==
    LET requested_byte_count == Len(buf) - Min(offset, Len(buf))
        bytes_to_read == Min(Len(b.buffer), requested_byte_count)
        oob == \E i \in 0..(bytes_to_read - 1) : i + b.pos >= Len(b.buffer)
    IN  IF oob
        THEN [panic |-> TRUE, b |-> b, buf |-> buf, n |-> 0]
        ELSE [panic |-> FALSE,
              b |-> [b EXCEPT !.pos = @ + bytes_to_read],
              buf |-> [k \in 1..Len(buf) |->
                         IF k > offset /\ k <= offset + bytes_to_read
                         THEN b.buffer[(k - offset) + b.pos]
                         ELSE buf[k]],
              n |-> bytes_to_read]

\* size_exceeds_capacity that compares the new bytes alone with the limit
size_exceeds_capacity_ignores_pending(b, size) ==
    IF b.buffer_limit = NoLimit THEN FALSE
    ELSE size > b.buffer_limit

\* size_exceeds_capacity that counts the bytes already read as used space
size_exceeds_capacity_counts_stored(b, size) ==
    LET used_space == Len(b.buffer)
    IN  IF b.buffer_limit = NoLimit THEN FALSE
        ELSE (used_space + size) > b.buffer_limit

\* Buffer::size_exceeds_capacity
size_exceeds_capacity(b, size) ==
    LET used_space == Buffer_len(b)
    IN  IF b.buffer_limit = NoLimit THEN FALSE
        ELSE (used_space + size) > b.buffer_limit

\* Buffer::get_available_space
get_available_space(b) == (b.cap - Len(b.buffer)) + b.pos

\* prepare_for_bytes that drains the read bytes and forgets to reset pos
prepare_for_bytes_keeps_pos(b, byte_size) ==
    LET available_space == get_available_space(b)
    IN  IF byte_size > available_space
        THEN [b EXCEPT !.buffer = Slice(b.buffer, b.pos, Len(b.buffer))]
        ELSE b

\* prepare_for_bytes that drains the read bytes before every append
prepare_for_bytes_always_drains(b, byte_size) ==
    [b EXCEPT !.buffer = Slice(b.buffer, b.pos, Len(b.buffer)), !.pos = 0]

\* Buffer::prepare_for_bytes
prepare_for_bytes(b, byte_size) ==
    LET available_space == get_available_space(b)
    IN  IF byte_size > available_space
        THEN [b EXCEPT !.buffer = Slice(b.buffer, b.pos, Len(b.buffer)), !.pos = 0]
        ELSE b

\* self.buffer.extend(buf): the Vec grows (amortised doubling) when the
\* bytes do not fit in its capacity
Vec_extend(b, data) ==
    LET required == Len(b.buffer) + Len(data)
    IN  [b EXCEPT !.buffer = b.buffer \o data,
                  !.cap = IF required <= b.cap THEN b.cap
                          ELSE Max(MIN_NON_ZERO_CAP, Max(2 * b.cap, required))]

\* Buffer::append
Buffer_append(b, data) ==
    IF size_exceeds_capacity(b, Len(data))
    THEN [ok |-> FALSE, b |-> b]
    ELSE [ok |-> TRUE, b |-> Vec_extend(prepare_for_bytes(b, Len(data)), data)]

\* Write::write_all over Buffer::write: an empty slice is never handed to write
Buffer_write_all(b, data) ==
    IF Len(data) = 0 THEN [ok |-> TRUE, b |-> b] ELSE Buffer_append(b, data)

\* Buffer::purge_read, called by MarkableReader::mark: drops the bytes already
\* read, [0, pos), keeps the pending ones and reports how many were dropped
Buffer_purge_read(b) ==
    [b |-> [b EXCEPT !.buffer = Slice(b.buffer, b.pos, Len(b.buffer)), !.pos = 0],
     ret |-> b.pos]

\* Buffer::restart, called by MarkableReader::reset: reading starts over at
\* the first byte held
Buffer_restart(b) == [b EXCEPT !.pos = 0]

\* ============================================================ inner source

\* inner.read(&mut [0; n]) of a source at position ipos:
\* the bytes it yields, or "eof" for Err(UnexpectedEof)
inner_read(ipos, n) ==
    IF ipos >= Len(src) /\ eofErr
    THEN [st |-> "eof", data |-> <<>>]
    ELSE [st |-> "ok", data |-> Slice(src, ipos, Min(Len(src), ipos + n))]

\* the record of one inner.read call: the length of the buffer handed to it
\* and the number of bytes it yielded, -1 for Err(UnexpectedEof)
InnerCall(n, got) ==
    [len |-> n, got |-> IF got.st = "ok" THEN Len(got.data) ELSE -1]

\* ========================================================== MarkableReader

\* MarkableReader::new
MR_new ==
    [ipos |-> 0, inner_calls |-> <<>>, inner_complete |-> FALSE, is_marked |-> FALSE,
     mark_buffer |-> Buffer_new(DEFAULT_MARKER_BUFFER_SIZE, NoLimit)]

\* MarkableReader::new_with_limited_back_buffer
MR_new_with_limited_back_buffer(limit) ==
    [ipos |-> 0, inner_calls |-> <<>>, inner_complete |-> FALSE, is_marked |-> FALSE,
     mark_buffer |-> Buffer_new(DEFAULT_MARKER_BUFFER_SIZE, limit)]

\* MarkableReader::new_with_capacity_and_limit
MR_new_with_capacity_and_limit(capacity, limit) ==
    [ipos |-> 0, inner_calls |-> <<>>, inner_complete |-> FALSE, is_marked |-> FALSE,
     mark_buffer |-> Buffer_new(capacity, limit)]

\* the while loop of MarkableReader::fill_from_inner: one single-byte read of
\* the inner source per iteration
RECURSIVE MR_fill_loop(_, _, _, _, _)
MR_fill_loop(ipos, calls, buf, offset, read) ==
    LET single_byte(current, log) ==
            IF current.st = "ok" /\ Len(current.data) > 0
            THEN MR_fill_loop(ipos + 1, log,
                              [buf EXCEPT ![read + offset + 1] = current.data[1]],
                              offset, read + 1)
            ELSE [st |-> "eof", ipos |-> ipos, calls |-> log, buf |-> buf, n |-> 0]
        logged(current) == single_byte(current, Append(calls, InnerCall(1, current)))
    IN  IF read + offset < Len(buf)
        THEN logged(inner_read(ipos, 1))
        ELSE [st |-> "ok", ipos |-> ipos, calls |-> calls, buf |-> buf, n |-> read]

\* MarkableReader::fill_from_inner
MR_fill_from_inner(r, buf, offset) ==
    LET filled(f) ==
            [st |-> f.st, r |-> [r EXCEPT !.ipos = f.ipos, !.inner_calls = f.calls],
             buf |-> f.buf, n |-> f.n]
    IN  IF r.inner_complete
        THEN [st |-> "ok", r |-> r, buf |-> buf, n |-> 0]
        ELSE filled(MR_fill_loop(r.ipos, r.inner_calls, buf, offset, 0))

\* MarkableReader::read_data_into_buf_and_marked_stream
MR_read_data_into_buf_and_marked_stream(r, buf, offset) ==
    LET written(f, w) ==
            IF w.ok
            THEN [f EXCEPT !.r.mark_buffer = w.b]
            ELSE [f EXCEPT !.st = "oom", !.n = 0]
        inner_bytes(f) == Slice(f.buf, Len(f.buf) - f.n, Len(f.buf))
        filled(f) ==
            IF f.st # "ok" THEN f
            ELSE IF f.n > 0
            THEN written(f, Buffer_append(f.r.mark_buffer, inner_bytes(f)))
            ELSE f
    IN  filled(MR_fill_from_inner(r, buf, offset))

\* read_into_buf whose marked branch goes straight to the inner source and
\* leaves the bytes waiting in the mark buffer where they are
MR_read_into_buf_marked_skips_buffer(r, buf) ==
    LET unmarked(m, f) ==
            IF f.st # "ok" THEN f
            ELSE IF m.n + f.n = 0 THEN [f EXCEPT !.st = "eof"]
            ELSE [f EXCEPT !.n = m.n + f.n]
        buffered(m) ==
            IF m.panic THEN [st |-> "panic", r |-> r, buf |-> buf, n |-> 0]
            ELSE unmarked(m, MR_fill_from_inner([r EXCEPT !.mark_buffer = m.b],
                                                m.buf, m.n))
    IN  IF r.is_marked
        THEN MR_read_data_into_buf_and_marked_stream(r, buf, 0)
        ELSE buffered(Buffer_read_into(r.mark_buffer, buf, 0))

\* MarkableReader::read_into_buf
MR_read_into_buf(r, buf) ==
    LET marked(m, d) ==
            IF d.st # "ok" THEN d
            ELSE [d EXCEPT !.n = d.n + m.n]
        unmarked(m, f) ==
            IF f.st # "ok" THEN f
            ELSE IF m.n + f.n = 0 THEN [f EXCEPT !.st = "eof"]
            ELSE [f EXCEPT !.n = m.n + f.n]
        buffered(m) ==
            IF m.panic THEN [st |-> "panic", r |-> r, buf |-> buf, n |-> 0]
            ELSE IF r.is_marked
            THEN marked(m, MR_read_data_into_buf_and_marked_stream(
                               [r EXCEPT !.mark_buffer = m.b], m.buf, m.n))
            ELSE unmarked(m, MR_fill_from_inner([r EXCEPT !.mark_buffer = m.b],
                                                m.buf, m.n))
    IN  buffered(Buffer_read_into(r.mark_buffer, buf, 0))

\* MarkerStream::mark for MarkableReader
MR_mark_fn(r) ==
    LET purged(p) ==
            [r |-> [r EXCEPT !.is_marked = TRUE, !.mark_buffer = p.b], ret |-> p.ret]
    IN  purged(Buffer_purge_read(r.mark_buffer))

\* MarkerStream::reset for MarkableReader
MR_reset_fn(r) ==
    [r EXCEPT !.is_marked = FALSE, !.mark_buffer = Buffer_restart(r.mark_buffer)]

\* ================================================== BufferedMarkableReader

\* BufferedMarkableReader::new
BMR_new ==
    [ipos |-> 0, inner_calls |-> <<>>, inner_complete |-> FALSE, is_marked |-> FALSE,
     mark_buffer |-> Buffer_new(DEFAULT_MARKER_BUFFER_SIZE, NoLimit),
     read_buffer |-> Buffer_new(DEFAULT_BUFFER_SIZE, DEFAULT_BUFFER_SIZE)]

\* BufferedMarkableReader::new_with_limited_back_buffer
BMR_new_with_limited_back_buffer(limit) ==
    [ipos |-> 0, inner_calls |-> <<>>, inner_complete |-> FALSE, is_marked |-> FALSE,
     mark_buffer |-> Buffer_new(DEFAULT_MARKER_BUFFER_SIZE, limit),
     read_buffer |-> Buffer_new(DEFAULT_BUFFER_SIZE, DEFAULT_BUFFER_SIZE)]

\* BufferedMarkableReader::new_with_capacity_and_limit
BMR_new_with_capacity_and_limit(back_buffer_capacity, reader_buffer_capacity) ==
    [ipos |-> 0, inner_calls |-> <<>>, inner_complete |-> FALSE, is_marked |-> FALSE,
     mark_buffer |-> Buffer_new(back_buffer_capacity, back_buffer_capacity),
     read_buffer |-> Buffer_new(reader_buffer_capacity, reader_buffer_capacity)]

\* fill_read_buffer that asks the inner source for as many bytes as the read
\* buffer's limit, whatever the buffer already holds
BMR_fill_read_buffer_sized_to_limit(r) ==
    LET written(r1, w) ==
            IF w.ok THEN [st |-> "ok", r |-> [r1 EXCEPT !.read_buffer = w.b]]
            ELSE [st |-> "oom", r |-> r1]
        logged(got, r0) ==
            IF got.st # "ok" THEN [st |-> got.st, r |-> r0]
            ELSE written([r0 EXCEPT !.ipos = @ + Len(got.data)],
                         Buffer_write_all(r.read_buffer, got.data))
        fetched(read_length, got) ==
            logged(got, [r EXCEPT !.inner_calls = Append(@, InnerCall(read_length, got))])
        sized(read_length) == fetched(read_length, inner_read(r.ipos, read_length))
    IN  sized(r.read_buffer.buffer_limit)

\* BufferedMarkableReader::fill_read_buffer
BMR_fill_read_buffer(r) ==
    LET written(r1, w) ==
            IF w.ok THEN [st |-> "ok", r |-> [r1 EXCEPT !.read_buffer = w.b]]
            ELSE [st |-> "oom", r |-> r1]
        logged(got, r0) ==
            IF got.st # "ok" THEN [st |-> got.st, r |-> r0]
            ELSE written([r0 EXCEPT !.ipos = @ + Len(got.data)],
                         Buffer_write_all(r.read_buffer, got.data))
        fetched(read_length, got) ==
            logged(got, [r EXCEPT !.inner_calls = Append(@, InnerCall(read_length, got))])
        sized(read_length) == fetched(read_length, inner_read(r.ipos, read_length))
    IN  sized(get_available_space(r.read_buffer))

\* BufferedMarkableReader::fill_from_read_buffer
BMR_fill_from_read_buffer(r, buf, offset) ==
    LET copied(r1, m) ==
            IF m.panic
            THEN [st |-> "panic", r |-> r1, buf |-> buf, n |-> 0]
            ELSE [st |-> "ok", r |-> [r1 EXCEPT !.read_buffer = m.b],
                  buf |-> m.buf, n |-> m.n]
        completed(fill, r1) ==
            IF fill.st \notin {"ok", "eof"}
            THEN [st |-> fill.st, r |-> r1, buf |-> buf, n |-> 0]
            ELSE copied(r1, Buffer_read_into(r1.read_buffer, buf, offset))
        filled(fill) ==
            completed(fill, IF fill.st = "eof"
                            THEN [fill.r EXCEPT !.inner_complete = TRUE]
                            ELSE fill.r)
    IN  IF r.inner_complete
        THEN [st |-> "ok", r |-> r, buf |-> buf, n |-> 0]
        ELSE filled(IF Buffer_len(r.read_buffer) < Len(buf)
                    THEN BMR_fill_read_buffer(r)
                    ELSE [st |-> "ok", r |-> r])

\* BufferedMarkableReader::read_data_into_buf_and_marked_stream
BMR_read_data_into_buf_and_marked_stream(r, buf) ==
    LET written(f, w) ==
            IF w.ok
            THEN [f EXCEPT !.r.mark_buffer = w.b]
            ELSE [f EXCEPT !.st = "oom", !.n = 0]
        filled(f) ==
            IF f.st # "ok" THEN f
            ELSE IF f.n > 0
            THEN written(f, Buffer_write_all(f.r.mark_buffer, f.buf))
            ELSE [f EXCEPT !.st = "eof"]
    IN  filled(BMR_fill_from_read_buffer(r, buf, 0))

\* BufferedMarkableReader::read_into_buf
BMR_read_into_buf(r, buf) ==
    LET unmarked(m, f) ==
            IF f.st # "ok" THEN f
            ELSE IF m.n + f.n = 0 THEN [f EXCEPT !.st = "eof"]
            ELSE [f EXCEPT !.n = m.n + f.n]
        buffered(m) ==
            IF m.panic THEN [st |-> "panic", r |-> r, buf |-> buf, n |-> 0]
            ELSE unmarked(m, BMR_fill_from_read_buffer([r EXCEPT !.mark_buffer = m.b],
                                                       m.buf, m.n))
    IN  IF r.is_marked
        THEN BMR_read_data_into_buf_and_marked_stream(r, buf)
        ELSE buffered(Buffer_read_into(r.mark_buffer, buf, 0))

\* BufferedMarkableReader::mark
BMR_mark_fn(r) ==
    LET cleared(c) ==
            [r |-> [r EXCEPT !.is_marked = TRUE, !.mark_buffer = c.b], ret |-> c.ret]
    IN  cleared(Buffer_clear(r.mark_buffer))

\* reset that flips the mark instead of dropping it
BMR_reset_toggles(r) == [r EXCEPT !.is_marked = ~r.is_marked]

\* BufferedMarkableReader::reset
BMR_reset_fn(r) == [r EXCEPT !.is_marked = FALSE]

\* ================================================================== caller

\* an inner source of n distinct bytes 1..n (no code path inspects a byte's
\* value, and a caller's buffer starts zeroed, so every byte's origin shows)
Source(n) == [i \in 1..n |-> i]

\* the ways a MarkableReader is constructed
MR_constructions ==
    {MR_new} \cup
    {MR_new_with_limited_back_buffer(l) : l \in 1..MaxCap} \cup
    {MR_new_with_capacity_and_limit(c, MaxLen) : c \in 1..MaxCap}

\* the ways a BufferedMarkableReader is constructed
BMR_constructions ==
    {BMR_new} \cup
    {BMR_new_with_limited_back_buffer(l) : l \in 1..MaxCap} \cup
    {BMR_new_with_capacity_and_limit(DEFAULT_MARKER_BUFFER_SIZE, c) : c \in 1..MaxCap} \cup
    {BMR_new_with_capacity_and_limit(c, c) : c \in 1..MaxCap}

NoBuffer == Buffer_new(0, NoLimit)

InitReader(maxLen, maxOps) ==
    /\ kind \in {"simple", "buffered"}
    /\ src \in {Source(n) : n \in 0..maxLen}
    /\ eofErr \in (IF kind = "buffered" THEN BOOLEAN ELSE {FALSE})
    /\ rd0 \in (IF kind = "simple" THEN MR_constructions ELSE BMR_constructions)
    /\ rd = rd0
    /\ bf = NoBuffer
    /\ panicked = FALSE
    /\ hist = <<>>
    /\ budget = maxOps

Init == InitReader(MaxLen, MaxOps)

InitLong == InitReader(MaxLongLen, MaxLongOps)

CanCall == ~panicked /\ Len(hist) < budget

\* the record of one read() call: its request, its outcome and the bytes it
\* handed to the caller (the first n of the caller's buffer on Ok(n))
ReadEntry(n, res) ==
    [op |-> "read", req |-> n, off |-> 0, st |-> res.st,
     bytes |-> IF res.st = "ok" THEN SubSeq(res.buf, 1, res.n) ELSE <<>>,
     ret |-> IF res.st = "ok" THEN res.n ELSE 0]

CallEntry(op, ret) ==
    [op |-> op, req |-> 0, off |-> 0, st |-> "ok", bytes |-> <<>>, ret |-> ret]

\* a read() of n bytes returns res to the caller; a panic ends the reader
ReadReturns(n, res) ==
    /\ rd' = res.r
    /\ panicked' = (res.st = "panic")
    /\ hist' = Append(hist, ReadEntry(n, res))

\* mark() returns m.ret to the caller
MarkReturns(m) ==
    /\ rd' = m.r
    /\ hist' = Append(hist, CallEntry("mark", m.ret))

\* Read::read for MarkableReader with a zeroed buffer of n bytes
MR_read(n) ==
    /\ kind = "simple" /\ CanCall
    /\ ReadReturns(n, MR_read_into_buf(rd, Zeros(n)))
    /\ UNCHANGED <<kind, src, eofErr, rd0, bf, budget>>

MR_mark ==
    /\ kind = "simple" /\ CanCall
    /\ MarkReturns(MR_mark_fn(rd))
    /\ UNCHANGED <<kind, src, eofErr, rd0, bf, panicked, budget>>

MR_reset ==
    /\ kind = "simple" /\ CanCall
    /\ rd' = MR_reset_fn(rd)
    /\ hist' = Append(hist, CallEntry("reset", 0))
    /\ UNCHANGED <<kind, src, eofErr, rd0, bf, panicked, budget>>

\* Read::read for BufferedMarkableReader with a zeroed buffer of n bytes
BMR_read(n) ==
    /\ kind = "buffered" /\ CanCall
    /\ ReadReturns(n, BMR_read_into_buf(rd, Zeros(n)))
    /\ UNCHANGED <<kind, src, eofErr, rd0, bf, budget>>

BMR_mark ==
    /\ kind = "buffered" /\ CanCall
    /\ MarkReturns(BMR_mark_fn(rd))
    /\ UNCHANGED <<kind, src, eofErr, rd0, bf, panicked, budget>>

BMR_reset ==
    /\ kind = "buffered" /\ CanCall
    /\ rd' = BMR_reset_fn(rd)
    /\ hist' = Append(hist, CallEntry("reset", 0))
    /\ UNCHANGED <<kind, src, eofErr, rd0, bf, panicked, budget>>

Next ==
    \/ \E n \in 0..MaxRead : MR_read(n)
    \/ MR_mark
    \/ MR_reset
    \/ \E n \in 0..MaxRead : BMR_read(n)
    \/ BMR_mark
    \/ BMR_reset

\* readers over sources of up to MaxLen bytes, MaxOps calls
Spec == Init /\ [][Next]_vars

\* the same readers over sources of up to MaxLongLen bytes, MaxLongOps calls
SpecLong == InitLong /\ [][Next]_vars

\* ------------------------------------------- the mark/read/reset/read cycle

\* MarkableReader constructions whose mark buffer may hold the two bytes one
\* cycle records
Cycle_constructions ==
    {MR_new} \cup
    {MR_new_with_limited_back_buffer(MaxCap + 1)} \cup
    {MR_new_with_capacity_and_limit(c, MaxCap + 1) : c \in 0..MaxCap}

InitCycle ==
    /\ kind = "cycle"
    /\ src \in {Source(n) : n \in 0..MaxCycleLen}
    /\ eofErr = FALSE
    /\ rd0 \in Cycle_constructions
    /\ rd = rd0
    /\ bf = NoBuffer
    /\ panicked = FALSE
    /\ hist = <<>>
    /\ budget = 4 * MaxCycleLen

AllOkSoFar == \A i \in 1..Len(hist) : hist[i].st = "ok"

\* the cycle goes on while every read succeeds
CycleAt(k) ==
    /\ kind = "cycle" /\ CanCall
    /\ Len(hist) % 4 = k
    /\ AllOkSoFar

Cycle_mark ==
    /\ CycleAt(0)
    /\ MarkReturns(MR_mark_fn(rd))
    /\ UNCHANGED <<kind, src, eofErr, rd0, bf, panicked, budget>>

Cycle_read_two ==
    /\ CycleAt(1)
    /\ ReadReturns(2, MR_read_into_buf(rd, Zeros(2)))
    /\ UNCHANGED <<kind, src, eofErr, rd0, bf, budget>>

Cycle_reset ==
    /\ CycleAt(2)
    /\ rd' = MR_reset_fn(rd)
    /\ hist' = Append(hist, CallEntry("reset", 0))
    /\ UNCHANGED <<kind, src, eofErr, rd0, bf, panicked, budget>>

Cycle_read_one ==
    /\ CycleAt(3)
    /\ ReadReturns(1, MR_read_into_buf(rd, Zeros(1)))
    /\ UNCHANGED <<kind, src, eofErr, rd0, bf, budget>>

NextCycle == Cycle_mark \/ Cycle_read_two \/ Cycle_reset \/ Cycle_read_one

\* a MarkableReader driven through mark(); read 2; reset(); read 1; ...
SpecCycle == InitCycle /\ [][NextCycle]_vars

\* ------------------------------- mark, read, mark again, read, reset, read

InitRemark ==
    /\ InitReader(MaxLen, 6)
    /\ eofErr = FALSE

\* the caller goes on while every read succeeds
RemarkAt(S) == Len(hist) \in S /\ AllOkSoFar

Remark_mark == RemarkAt({0, 2}) /\ (MR_mark \/ BMR_mark)

Remark_read(n) == RemarkAt({1, 3, 5}) /\ (MR_read(n) \/ BMR_read(n))

Remark_reset == RemarkAt({4}) /\ (MR_reset \/ BMR_reset)

NextRemark ==
    \/ Remark_mark
    \/ \E n \in 1..MaxRead : Remark_read(n)
    \/ Remark_reset

\* either reader driven through mark(); read; mark(); read; reset(); read
SpecRemark == InitRemark /\ [][NextRemark]_vars

\* ------------------------------ mark, read, reset, read, mark again, read

InitReplay ==
    /\ InitReader(MaxLongLen, 6)
    /\ kind = "buffered"

Replay_mark == RemarkAt({0, 4}) /\ BMR_mark

Replay_read(n) == RemarkAt({1, 3, 5}) /\ BMR_read(n)

Replay_reset == RemarkAt({2}) /\ BMR_reset

NextReplay ==
    \/ Replay_mark
    \/ \E n \in 1..(MaxRead + 1) : Replay_read(n)
    \/ Replay_reset

\* a BufferedMarkableReader driven through
\* mark(); read; reset(); read; mark(); read
SpecReplay == InitReplay /\ [][NextReplay]_vars

\* ----------------------------------------------------- a stand-alone Buffer

Buffer_constructions ==
    {Buffer_new(c, l) : c \in 0..(MaxCap + 1), l \in {NoLimit} \cup 1..(MaxCap + 1)}

InitBuffer ==
    /\ kind = "buffer"
    /\ src = <<>>
    /\ eofErr = FALSE
    /\ rd0 = MR_new
    /\ rd = rd0
    /\ bf \in Buffer_constructions
    /\ panicked = FALSE
    /\ hist = <<>>
    /\ budget = MaxBufOps

\* the number of bytes handed to write so far
RECURSIVE Offered(_)
Offered(h) ==
    IF h = <<>> THEN 0
    ELSE Offered(SubSeq(h, 1, Len(h) - 1))
         + (IF h[Len(h)].op = "write" THEN h[Len(h)].req ELSE 0)

\* Write::write_all of n fresh bytes: the k-th byte ever offered is k
Buf_write(n) ==
    /\ kind = "buffer" /\ CanCall
    /\ LET data == [i \in 1..n |-> Offered(hist) + i]
           w == Buffer_write_all(bf, data)
       IN  /\ bf' = w.b
           /\ hist' = Append(hist, [op |-> "write", req |-> n, off |-> 0,
                                    st |-> IF w.ok THEN "ok" ELSE "oom",
                                    bytes |-> IF w.ok THEN data ELSE <<>>,
                                    ret |-> 0])
    /\ UNCHANGED <<kind, src, eofErr, rd0, rd, panicked, budget>>

\* Read::read into a zeroed buffer of n bytes
Buf_read(n) ==
    /\ kind = "buffer" /\ CanCall
    /\ LET m == Buffer_read_into(bf, Zeros(n), 0)
       IN  /\ bf' = m.b
           /\ panicked' = m.panic
           /\ hist' = Append(hist, [op |-> "read", req |-> n, off |-> 0,
                                    st |-> IF m.panic THEN "panic" ELSE "ok",
                                    bytes |-> SubSeq(m.buf, 1, m.n),
                                    ret |-> m.n])
    /\ UNCHANGED <<kind, src, eofErr, rd0, rd, budget>>

\* Buffer::read_into with a zeroed destination of n bytes and the offset o;
\* the bytes recorded are those found in the destination from the offset on
Buf_read_into(n, o) ==
    /\ kind = "buffer" /\ CanCall
    /\ LET m == Buffer_read_into(bf, Zeros(n), o)
       IN  /\ bf' = m.b
           /\ panicked' = m.panic
           /\ hist' = Append(hist, [op |-> "read", req |-> n, off |-> o,
                                    st |-> IF m.panic THEN "panic" ELSE "ok",
                                    bytes |-> SubSeq(m.buf, o + 1, o + m.n),
                                    ret |-> m.n])
    /\ UNCHANGED <<kind, src, eofErr, rd0, rd, budget>>

Buf_clear ==
    /\ kind = "buffer" /\ CanCall
    /\ LET c == Buffer_clear(bf)
       IN  /\ bf' = c.b
           /\ hist' = Append(hist, CallEntry("clear", c.ret))
    /\ UNCHANGED <<kind, src, eofErr, rd0, rd, panicked, budget>>

NextBuffer ==
    \/ \E n \in 0..MaxWrite : Buf_write(n)
    \/ \E n \in 0..MaxRead : Buf_read(n)
    \/ Buf_clear

\* a Buffer written to, read from and cleared by its owner
SpecBuffer == InitBuffer /\ [][NextBuffer]_vars

NextBufferAt ==
    \/ \E n \in 0..MaxWrite : Buf_write(n)
    \/ \E n \in 0..MaxRead : \E o \in 0..(n + 1) : Buf_read_into(n, o)
    \/ Buf_clear

\* a Buffer whose owner reads into its destination at any offset
SpecBufferAt == InitBuffer /\ [][NextBufferAt]_vars

\* ============================================================== histories

IsPrefix(a, b) == Len(a) <= Len(b) /\ SubSeq(b, 1, Len(a)) = a

\* the bytes handed to the caller by the successful reads of h, in order
RECURSIVE Delivered(_)
Delivered(h) ==
    IF h = <<>> THEN <<>>
    ELSE Delivered(SubSeq(h, 1, Len(h) - 1)) \o h[Len(h)].bytes

\* index of the last op call in h, 0 when there is none
LastCall(h, op) ==
    LET S == {i \in 1..Len(h) : h[i].op = op}
    IN  IF S = {} THEN 0 ELSE CHOOSE i \in S : \A j \in S : j <= i

Count(h, op) == Cardinality({i \in 1..Len(h) : h[i].op = op})

\* the calls of h after the first k
After(h, k) == SubSeq(h, k + 1, Len(h))

AllReads(h) == \A i \in 1..Len(h) : h[i].op = "read"
AllOk(h) == \A i \in 1..Len(h) : h[i].st = "ok"

\* ================================================================= claims

\* the calls so far are: successful reads, mark(), one successful read of
\* k >= 1 bytes, reset(), one more read
MarkReadResetRead(h) ==
    /\ Len(h) >= 4
    /\ LET n == Len(h)
       IN  /\ h[n].op = "read" /\ h[n-1].op = "reset"
           /\ h[n-2].op = "read" /\ h[n-2].st = "ok" /\ h[n-2].ret >= 1
           /\ h[n-3].op = "mark"
           /\ AllReads(SubSeq(h, 1, n - 4)) /\ AllOk(SubSeq(h, 1, n - 4))

\* C1: after any reads, mark(), a read of k bytes, reset() and a read of k
\* bytes, the second read returns the k bytes the read after the mark returned
C1_ResetReplays ==
    (MarkReadResetRead(hist) /\ hist[Len(hist)].req = hist[Len(hist) - 2].ret) =>
        /\ hist[Len(hist)].st = "ok"
        /\ hist[Len(hist)].bytes = hist[Len(hist) - 2].bytes

\* C2: after mark(), a read of j bytes and reset(), a read that asks for more
\* than j bytes returns the j recorded bytes followed by the next bytes of the
\* inner source, in stream order
C2_ReplayThenLive ==
    (MarkReadResetRead(hist) /\ hist[Len(hist)].req > hist[Len(hist) - 2].ret) =>
        LET n == Len(hist)
            p == Len(Delivered(SubSeq(hist, 1, n - 4)))
            j == hist[n-2].ret
        IN  /\ hist[n].st = "ok"
            /\ hist[n].ret >= j
            /\ hist[n].bytes = SubSeq(src, p + 1, p + hist[n].ret)

\* C3: with no reset() among the calls, the bytes delivered by the
\* successful reads are a prefix of the inner source's bytes
C3_NoResetPrefix ==
    Count(hist, "reset") = 0 => IsPrefix(Delivered(hist), src)

Calls(op) == Len(hist') = Len(hist) + 1 /\ hist'[Len(hist')].op = op

\* C5: a read of at least one byte, issued when the inner source is exhausted
\* and no buffer holds a pending byte, fails with UnexpectedEof
C5_ExhaustedReadIsEof ==
    [][(/\ kind \in {"simple", "buffered"}
        /\ Calls("read") /\ hist'[Len(hist')].req >= 1
        /\ rd.ipos = Len(src)
        /\ Buffer_len(rd.mark_buffer) = 0
        /\ kind = "buffered" => Buffer_len(rd.read_buffer) = 0)
       => hist'[Len(hist')].st = "eof"]_vars

\* the bytes k one-byte reads deliver on BufferedMarkableReader r
RECURSIVE BMR_unit_reads(_, _)
BMR_unit_reads(r, k) ==
    IF k = 0 THEN <<>>
    ELSE LET res == BMR_read_into_buf(r, Zeros(1))
         IN  IF res.st = "panic" THEN <<>>
             ELSE (IF res.st = "ok" THEN SubSeq(res.buf, 1, res.n) ELSE <<>>)
                  \o BMR_unit_reads(res.r, k - 1)

RECURSIVE Requested(_)
Requested(h) ==
    IF h = <<>> THEN 0
    ELSE Requested(SubSeq(h, 1, Len(h) - 1)) + h[Len(h)].req

\* C6: with no mark() or reset(), the bytes a BufferedMarkableReader delivers
\* to reads of any sizes are the bytes it delivers to one-byte reads asking
\* for as many bytes in total: a prefix of them, and all of them once a read
\* has failed
C6_ChunkingTransparent ==
    (kind = "buffered" /\ AllReads(hist) /\ \A i \in 1..Len(hist) : hist[i].req >= 1) =>
        LET ref == BMR_unit_reads(rd0, Requested(hist))
        IN  /\ IsPrefix(Delivered(hist), ref)
            /\ (hist # <<>> /\ hist[Len(hist)].st # "ok") => Delivered(hist) = ref

\* C7: while a MarkableReader is marked, the bytes its successful reads have
\* delivered since the last mark() are in the mark buffer, in order, as the
\* bytes a reset() replays first
C7_MarkedBytesRecorded ==
    (kind = "simple" /\ rd.is_marked) =>
        IsPrefix(Delivered(After(hist, LastCall(hist, "mark"))), rd.mark_buffer.buffer)

\* C8: a successful read of a marked BufferedMarkableReader appends to the
\* mark buffer exactly the bytes its return value counts
C8_RecordsReturnedBytes ==
    [][(kind = "buffered" /\ Calls("read") /\ rd.is_marked
        /\ hist'[Len(hist')].st = "ok")
       => rd'.mark_buffer.buffer = rd.mark_buffer.buffer \o hist'[Len(hist')].bytes]_vars

\* C9: reset() on a reader that was never marked leaves the reader as it was,
\* so every later read behaves as if reset() had not been called
C9_UnmarkedResetNoOp ==
    [][(kind \in {"simple", "buffered"} /\ Calls("reset") /\ Count(hist, "mark") = 0)
       => rd' = rd]_vars

\* reset() was called on a never-marked reader between two successful reads
C9_Witness ==
    /\ kind = "buffered"
    /\ Len(hist) >= 3
    /\ Count(hist, "mark") = 0
    /\ hist[Len(hist) - 1].op = "reset"
    /\ hist[Len(hist)].op = "read" /\ hist[Len(hist)].st = "ok" /\ hist[Len(hist)].ret >= 1
    /\ hist[Len(hist) - 2].op = "read" /\ hist[Len(hist) - 2].st = "ok"

\* the bytes accepted by the writes of h, and the bytes returned by its reads
Written(h) == Delivered(SelectSeq(h, LAMBDA e : e.op = "write"))
ReadBack(h) == Delivered(SelectSeq(h, LAMBDA e : e.op = "read"))

\* C10: over any interleaving of writes and reads of a Buffer, the bytes read
\* back, followed by the bytes still pending, are the bytes written, in order
C10_RoundTrip ==
    (kind = "buffer" /\ Count(hist, "clear") = 0) =>
        /\ IsPrefix(ReadBack(hist), Written(hist))
        /\ Written(hist) = ReadBack(hist) \o Slice(bf.buffer, bf.pos, Len(bf.buffer))

\* bytes written in two slices around a read came back complete and in order
C10_Witness ==
    /\ kind = "buffer" /\ Count(hist, "clear") = 0
    /\ Len(hist) = 4
    /\ hist[1].op = "write" /\ hist[1].st = "ok" /\ hist[1].req >= 1
    /\ hist[2].op = "read" /\ hist[2].ret >= 1
    /\ hist[3].op = "write" /\ hist[3].st = "ok" /\ hist[3].req >= 1
    /\ hist[4].op = "read" /\ hist[4].st = "ok"
    /\ ReadBack(hist) = Written(hist)

\* C11: an append to a Buffer with a limit fails with OutOfMemory when the
\* pending length plus the appended length exceeds the limit, and the failed
\* append leaves the position and the stored bytes as they were
C11_AppendOverLimitFails ==
    [][(/\ kind = "buffer" /\ Calls("write")
        /\ bf.buffer_limit # NoLimit
        /\ Buffer_len(bf) + hist'[Len(hist')].req > bf.buffer_limit)
       => /\ hist'[Len(hist')].st = "oom"
          /\ bf'.pos = bf.pos
          /\ bf'.buffer = bf.buffer]_vars

\* an append was refused while the buffer held a read byte and a pending one
C11_Witness ==
    /\ kind = "buffer" /\ hist # <<>>
    /\ hist[Len(hist)].op = "write" /\ hist[Len(hist)].st = "oom"
    /\ bf.pos > 0 /\ Buffer_len(bf) > 0

\* C12: an append of n bytes succeeds exactly when there is no limit or the
\* pending length plus n is within the limit, whatever was written and read
\* before and whatever the initial capacity; the pending length after an
\* append is within the limit
C12_AppendAcceptance ==
    [][(kind = "buffer" /\ Calls("write"))
       => /\ (hist'[Len(hist')].st = "ok") <=>
                 (\/ bf.buffer_limit = NoLimit
                  \/ Buffer_len(bf) + hist'[Len(hist')].req <= bf.buffer_limit)
          /\ bf.buffer_limit # NoLimit => Buffer_len(bf') <= bf'.buffer_limit]_vars

\* an append filled the buffer to its limit after earlier bytes were read:
\* more bytes are stored than the limit allows pending
C12_Witness ==
    /\ kind = "buffer" /\ hist # <<>>
    /\ hist[Len(hist)].op = "write" /\ hist[Len(hist)].st = "ok"
    /\ hist[Len(hist)].req >= 1
    /\ bf.buffer_limit # NoLimit
    /\ bf.pos > 0
    /\ Buffer_len(bf) = bf.buffer_limit
    /\ Len(bf.buffer) > bf.buffer_limit

\* C13: clear() returns the pending length held before the call and leaves
\* the Buffer as a newly made one of the same capacity and limit: nothing
\* stored, position 0
C13_ClearEmpties ==
    [][(kind = "buffer" /\ Calls("clear"))
       => /\ hist'[Len(hist')].ret = Buffer_len(bf)
          /\ Buffer_len(bf') = 0 /\ bf'.pos = 0
          /\ bf' = Buffer_new(bf.cap, bf.buffer_limit)]_vars

\* a buffer holding a read byte and a pending byte was cleared, and the bytes
\* written afterwards are the bytes it holds
C13_Witness ==
    /\ kind = "buffer" /\ Len(hist) = 4
    /\ hist[1].op = "write" /\ hist[1].st = "ok" /\ hist[1].req = 2
    /\ hist[2].op = "read" /\ hist[2].ret = 1
    /\ hist[3].op = "clear" /\ hist[3].ret = 1
    /\ hist[4].op = "write" /\ hist[4].st = "ok" /\ hist[4].req >= 1
    /\ bf.pos = 0 /\ bf.buffer = hist[4].bytes

Signalled(r) ==
    \E i \in 1..Len(r.inner_calls) :
        r.inner_calls[i].len > 0 /\ r.inner_calls[i].got <= 0

\* C15: once the inner source has signalled that it has no more bytes, the
\* reader's inner_complete flag is set, it stays set, and no later call reads
\* the inner source again
C15_EndOfStreamSticky ==
    [][(kind \in {"simple", "buffered"})
       => (/\ Signalled(rd') => rd'.inner_complete
           /\ rd.inner_complete => rd'.inner_complete
           /\ Signalled(rd) => rd'.inner_calls = rd.inner_calls)]_vars

\* the stream can serve a read of n bytes in one go: that many bytes are
\* waiting in the read buffer or the inner source, and a
\* BufferedMarkableReader's read buffer may hold that many
Servable(r, n) ==
    IF kind = "buffered"
    THEN /\ Buffer_len(r.read_buffer) + (Len(src) - r.ipos) >= n
         /\ r.read_buffer.buffer_limit >= n
    ELSE Len(src) - r.ipos >= n

\* C16: on a reader with a limited mark buffer, a marked read of n bytes that
\* the stream can serve, and whose n bytes do not fit with the bytes already
\* recorded within the limit, fails with OutOfMemory and leaves the mark
\* buffer as it was
C16_MarkOverflowFails ==
    [][(/\ kind \in {"simple", "buffered"}
        /\ Calls("read") /\ rd.is_marked
        /\ rd.mark_buffer.buffer_limit # NoLimit
        /\ hist'[Len(hist')].req >= 1
        /\ Servable(rd, hist'[Len(hist')].req)
        /\ Buffer_len(rd.mark_buffer) + hist'[Len(hist')].req > rd.mark_buffer.buffer_limit)
       => (/\ hist'[Len(hist')].st = "oom"
           /\ rd'.mark_buffer = rd.mark_buffer)]_vars

\* C17: read_into(destination, offset) copies min(pending length,
\* destination length - offset) bytes, the first pending ones, into the
\* destination from the offset on, advances the position by that count and
\* returns it, in every state of the Buffer
C17_ReadIntoCopiesPending ==
    [][(kind = "buffer" /\ Calls("read"))
       => LET e == hist'[Len(hist')]
              count == Min(Buffer_len(bf), e.req - Min(e.off, e.req))
          IN  /\ e.st = "ok"
              /\ e.ret = count
              /\ e.bytes = SubSeq(bf.buffer, bf.pos + 1, bf.pos + count)
              /\ bf'.pos = bf.pos + count
              /\ bf'.buffer = bf.buffer]_vars

\* the set of the bytes of a sequence
Range(q) == {q[i] : i \in 1..Len(q)}

\* C18: after mark(), a read of a bytes, mark() again, a read of b bytes and
\* reset(), the next read returns the b bytes read after the second mark and
\* then the bytes of the inner source that follow them, and none of the a
\* bytes read between the two marks
C18_SingleRewind ==
    (/\ Len(hist) = 6
     /\ hist[1].op = "mark" /\ hist[3].op = "mark" /\ hist[5].op = "reset"
     /\ hist[2].st = "ok" /\ hist[2].ret >= 1
     /\ hist[4].st = "ok" /\ hist[4].ret >= 1) =>
        LET a == hist[2].ret
            b == hist[4].ret
            e == hist[6]
        IN  /\ e.st = "ok"
            /\ e.ret >= Min(e.req, b)
            /\ IsPrefix(e.bytes, hist[4].bytes \o SubSeq(src, a + b + 1, Len(src)))
            /\ Range(e.bytes) \cap Range(hist[2].bytes) = {}

\* the inner source answered a read made during this step with no byte
RanOut ==
    /\ Len(rd'.inner_calls) > Len(rd.inner_calls)
    /\ rd'.inner_calls[Len(rd'.inner_calls)].got <= 0

\* the bytes this step took from the inner source
Obtained == SubSeq(src, rd.ipos + 1, rd'.ipos)

\* the bytes this step took from the mark buffer
Drained == SubSeq(rd.mark_buffer.buffer, rd.mark_buffer.pos + 1, rd'.mark_buffer.pos)

\* C19: a marked read of a MarkableReader during which the inner source runs
\* out fails with UnexpectedEof, and the bytes it took from the inner source
\* before that are recorded in the mark buffer
C19_MarkedEofKeepsRecord ==
    [][(kind = "simple" /\ Calls("read") /\ rd.is_marked /\ RanOut)
       => (/\ hist'[Len(hist')].st = "eof"
           /\ rd'.mark_buffer.buffer = rd.mark_buffer.buffer \o Obtained)]_vars

\* C20: an unmarked read of a MarkableReader fails with UnexpectedEof only
\* when it produced no byte; a read that took bytes from the mark buffer or
\* from the inner source returns Ok with those bytes
C20_UnmarkedEofOnlyWhenEmpty ==
    [][(kind = "simple" /\ Calls("read") /\ ~rd.is_marked
        /\ hist'[Len(hist')].req >= 1)
       => (/\ hist'[Len(hist')].st = "eof" => Len(Drained) + Len(Obtained) = 0
           /\ Len(Drained) + Len(Obtained) > 0 =>
                 /\ hist'[Len(hist')].st = "ok"
                 /\ hist'[Len(hist')].bytes = Drained \o Obtained)]_vars

\* C21: a read() of a BufferedMarkableReader reads the inner source at most
\* once, with a buffer as long as the read buffer's available space, and not
\* at all when the read buffer holds as many pending bytes as the caller asks
\* for or when inner_complete is set
C21_OneInnerReadPerRead ==
    [][(kind = "buffered" /\ Calls("read"))
       => (/\ Len(rd'.inner_calls) <= Len(rd.inner_calls) + 1
           /\ SubSeq(rd'.inner_calls, 1, Len(rd.inner_calls)) = rd.inner_calls
           /\ Len(rd'.inner_calls) > Len(rd.inner_calls) =>
                  rd'.inner_calls[Len(rd'.inner_calls)].len
                      = get_available_space(rd.read_buffer)
           /\ (\/ Buffer_len(rd.read_buffer) >= hist'[Len(hist')].req
               \/ rd.inner_complete) => rd'.inner_calls = rd.inner_calls)]_vars

\* the first read filled the read buffer with one read of the inner source
\* and the second read was served from it without another
C21_Witness ==
    /\ kind = "buffered" /\ Len(hist) = 2
    /\ hist[1].op = "read" /\ hist[1].st = "ok" /\ hist[1].ret >= 1
    /\ hist[2].op = "read" /\ hist[2].st = "ok" /\ hist[2].ret >= 1
    /\ Len(rd.inner_calls) = 1
    /\ rd.inner_calls[1].len = DEFAULT_BUFFER_SIZE

\* C22: no call on a BufferedMarkableReader panics: every read() returns Ok
\* or an error value
C22_BufferedNeverPanics ==
    kind = "buffered" => (~panicked /\ \A i \in 1..Len(hist) : hist[i].st # "panic")

\* C23: a BufferedMarkableReader reports UnexpectedEof to a read of at least
\* one byte only when its read buffer holds no pending byte, so that no byte
\* fetched from the inner source is left behind, also once inner_complete is
\* set
C23_EofOnlyWhenReadAheadEmpty ==
    (/\ kind = "buffered" /\ hist # <<>>
     /\ hist[Len(hist)].op = "read"
     /\ hist[Len(hist)].req >= 1
     /\ hist[Len(hist)].st = "eof")
    => Buffer_len(rd.read_buffer) = 0

\* a read() that failed with OutOfMemory in the append of fill_read_buffer:
\* the read buffer is as it was, whereas a failed append to the mark buffer
\* comes after bytes were taken from the read buffer
RefillFailed ==
    /\ hist'[Len(hist')].st = "oom"
    /\ rd'.read_buffer = rd.read_buffer

\* C24: over any reads of a BufferedMarkableReader the pending bytes of the
\* read buffer never number more than its limit, and the append of a refill
\* never fails with OutOfMemory
C24_RefillNeverOverflows ==
    [][(kind = "buffered" /\ Calls("read"))
       => (/\ Buffer_len(rd'.read_buffer) <= rd'.read_buffer.buffer_limit
           /\ ~RefillFailed)]_vars

\* the pending bytes of a Buffer
Pending(b) == Slice(b.buffer, b.pos, Len(b.buffer))

\* C25: an accepted append to a Buffer drops stored bytes only when the
\* appended length is greater than the available space, what it drops is
\* exactly the read prefix [0, pos) with pos set to 0, and in either case the
\* pending bytes afterwards are the pending bytes before followed by the
\* appended bytes
C25_CompactionKeepsPending ==
    [][(/\ kind = "buffer" /\ Calls("write")
        /\ hist'[Len(hist')].st = "ok" /\ hist'[Len(hist')].req >= 1)
       => (/\ hist'[Len(hist')].req <= get_available_space(bf) =>
                  (bf'.pos = bf.pos /\ bf'.buffer = bf.buffer \o hist'[Len(hist')].bytes)
           /\ \/ bf'.pos = bf.pos /\ bf'.buffer = bf.buffer \o hist'[Len(hist')].bytes
              \/ bf'.pos = 0 /\ bf'.buffer = Pending(bf) \o hist'[Len(hist')].bytes
           /\ Pending(bf') = Pending(bf) \o hist'[Len(hist')].bytes)]_vars

\* a write after a read did not fit in the available space and dropped the
\* bytes already read
C25_Witness ==
    /\ kind = "buffer" /\ Len(hist) = 3
    /\ hist[1].op = "write" /\ hist[1].st = "ok" /\ hist[1].req >= 1
    /\ hist[2].op = "read" /\ hist[2].st = "ok" /\ hist[2].ret >= 1
    /\ hist[3].op = "write" /\ hist[3].st = "ok" /\ hist[3].req >= 1
    /\ bf.pos = 0
    /\ Len(bf.buffer) < Len(Written(hist))
    /\ Written(hist) = ReadBack(hist) \o bf.buffer

====
